---- MODULE Spec2Model ----
(***************************************************************************)
(* State-machine model of the qsearch web client: the Session Store       *)
(* (AuthContext.tsx, redirect and password variants), the LoginModal form, *)
(* the Theme Resolver (ThemeProvider and the pre-render theme script),    *)
(* the search orchestrator of the App component (onSearch) and the        *)
(* periodic pollers of the App and of the federation dashboard.           *)
(***************************************************************************)
EXTENDS Integers, Sequences, FiniteSets, TLC

\* ------------------------------------------------------------------ bounds
\* number of store operations (refreshUser, register, login, logout) a run may call
MaxCalls == 3
\* number of search submissions a run may make
MaxSearches == 2
\* longest results sequence a search response carries
MaxResults == 2
\* number of setTheme calls a run may make
MaxThemeSets == 3
\* longest password typed into the LoginModal
MaxPwLen == 6
\* number of view instances (App, Federation) a run may mount
MaxMounts == 2
\* number of poll requests a run may issue
MaxPolls == 3

\* ------------------------------------------------------- program constants
\* minLength={6} of the LoginModal password input
MinLength == 6

\* ------------------------------------------------------------------ values
\* JavaScript null and undefined, and the two Session payloads a backend may send
Null == [tag |-> "null"]
Undefined == [tag |-> "undefined"]
SessionA == [tag |-> "session", user_id |-> "a", email |-> "a@x", name |-> "A", created_at |-> "t1"]
SessionB == [tag |-> "session", user_id |-> "b", email |-> "b@x", name |-> "B", created_at |-> "absent"]
Sessions == {SessionA, SessionB}

\* JavaScript truthiness of a user value: !!user
Truthy(u) == u.tag = "session"

NoProviders == [google |-> FALSE, microsoft |-> FALSE]
GoogleOnly == [google |-> TRUE, microsoft |-> FALSE]
AbsentProviders == [google |-> FALSE, microsoft |-> FALSE, absent |-> TRUE]

\* One shape for every backend answer.  kind: "transport" (fetch rejected) or
\* "http" (a response arrived); ok: res.ok; parse: res.json() succeeds;
\* flag: the body's enabled / authenticated / ok field ("absent" when missing);
\* user: the body's user field; detail: the body's detail field;
\* providers: the body's providers field.
Resp(kind, ok, parse, flag, usr, detail, provs) ==
    [kind |-> kind, ok |-> ok, parse |-> parse, flag |-> flag,
     user |-> usr, detail |-> detail, providers |-> provs]
NoResp == Resp("none", FALSE, FALSE, "absent", Undefined, "absent", AbsentProviders)
TransportFailure == Resp("transport", FALSE, FALSE, "absent", Undefined, "absent", AbsentProviders)
HttpStatus(ok) == Resp("http", ok, FALSE, "absent", Undefined, "absent", AbsentProviders)

\* answers of GET /api/v1/auth/providers
CapsResponses ==
    {TransportFailure, HttpStatus(FALSE), HttpStatus(TRUE)}
    \cup {Resp("http", TRUE, TRUE, "true", Undefined, "absent", GoogleOnly),
          Resp("http", TRUE, TRUE, "true", Undefined, "absent", AbsentProviders),
          Resp("http", TRUE, TRUE, "false", Undefined, "absent", NoProviders),
          Resp("http", TRUE, TRUE, "absent", Undefined, "absent", AbsentProviders)}

\* answers of GET /api/v1/auth/me
MeResponses ==
    {TransportFailure, HttpStatus(FALSE), HttpStatus(TRUE)}
    \cup {Resp("http", TRUE, TRUE, "true", s, "absent", AbsentProviders) : s \in Sessions}
    \cup {Resp("http", TRUE, TRUE, "true", Undefined, "absent", AbsentProviders),
          Resp("http", TRUE, TRUE, "false", Undefined, "absent", AbsentProviders)}

\* answers of POST /api/v1/auth/register and /api/v1/auth/login
PostResponses ==
    {TransportFailure, HttpStatus(FALSE), HttpStatus(TRUE)}
    \cup {Resp("http", TRUE, TRUE, "true", s, "absent", AbsentProviders) : s \in Sessions}
    \cup {Resp("http", TRUE, TRUE, "true", Undefined, "absent", AbsentProviders),
          Resp("http", TRUE, TRUE, "false", Undefined, "absent", AbsentProviders),
          Resp("http", TRUE, TRUE, "false", Undefined, "detail-text", AbsentProviders),
          Resp("http", FALSE, TRUE, "absent", Undefined, "detail-text", AbsentProviders),
          Resp("http", FALSE, TRUE, "absent", Undefined, "absent", AbsentProviders),
          Resp("http", FALSE, TRUE, "true", SessionA, "absent", AbsentProviders)}

\* answers of POST /api/v1/auth/logout (the body is never read)
LogoutResponses == {TransportFailure, HttpStatus(FALSE), HttpStatus(TRUE)}

\* the value a register / login promise resolves to
Result(ok, err) == [ok |-> ok, error |-> err]
NoResult == [ok |-> FALSE, error |-> "none"]

\* the inputs of the search form
Queries == {"", "q1"}
Limits == {10, 5}
Alphas == {5, 3}

\* a numeric field that is missing from a body
Absent == -1

\* search result items as the backend sends them
ItemLocal == [doc_id |-> "d1", distance |-> 2, basin_distance |-> Absent,
              hybrid_score |-> Absent, serper_position |-> Absent]
ItemHybrid == [doc_id |-> "d2", distance |-> Absent, basin_distance |-> 1,
               hybrid_score |-> 7, serper_position |-> 1]
Items == {ItemLocal, ItemHybrid}
ResultLists ==
    {l \in UNION {[1..n -> Items] : n \in 0..MaxResults} :
        \A i, j \in DOMAIN l : l[i] = l[j] => i = j}

\* One shape for every answer of POST /search and POST /hybrid.  status and
\* body are read on a failure status; cache_hit ("true", "false" or "absent")
\* and results (hasResults says whether the field is there) on a parsed body.
SearchResp(kind, ok, status, body, parse, hit, hasResults, list) ==
    [kind |-> kind, ok |-> ok, status |-> status, body |-> body, parse |-> parse,
     cache_hit |-> hit, hasResults |-> hasResults, results |-> list]
SearchResponses ==
    {SearchResp("transport", FALSE, 0, "", FALSE, "absent", FALSE, <<>>),
     SearchResp("http", FALSE, 500, "boom", FALSE, "absent", FALSE, <<>>),
     SearchResp("http", TRUE, 200, "", FALSE, "absent", FALSE, <<>>),
     SearchResp("http", TRUE, 200, "", TRUE, "absent", FALSE, <<>>)}
    \cup {SearchResp("http", TRUE, 200, "", TRUE, "true", TRUE, l) : l \in ResultLists}
    \cup {SearchResp("http", TRUE, 200, "", TRUE, "false", TRUE, <<ItemLocal>>),
          SearchResp("http", TRUE, 200, "", TRUE, "absent", TRUE, <<ItemHybrid>>)}

\* the request onSearch sends: qsearchHybrid(query, limit, alpha, true) posts
\* {query, limit, alpha, learn} to /hybrid, qsearchSearch(query, limit) posts
\* {query, limit} to /search
SearchRequest(mode, q, lim, a) ==
    IF mode = "hybrid"
    THEN [path |-> "/hybrid", query |-> q, limit |-> lim, alpha |-> a, learn |-> TRUE]
    ELSE [path |-> "/search", query |-> q, limit |-> lim, alpha |-> Absent, learn |-> FALSE]

\* an onSearch call suspended at its request: the branch it took (the
\* searchMode its closure captured) and the request it sent
SearchCall(id, mode, request) == [id |-> id, mode |-> mode, request |-> request]

\* the error state of the App: null, or the message of what was thrown
ErrorMsg(prefix, status, body) == [prefix |-> prefix, status |-> status, body |-> body]
NoError == ErrorMsg("null", 0, "")

\* the views the Router chooses between by window.location.hash
Views == {"app", "federation"}

\* LearnerStats as the App holds it: null, or the body of a /learner/stats
\* answer as it was parsed (a field the body lacks is Absent)
Stats(tag, docs, queue, running) ==
    [tag |-> tag, documents_added |-> docs, queue_size |-> queue, running |-> running]
NoStats == Stats("null", Absent, Absent, FALSE)
StatsA == Stats("stats", 1, 2, TRUE)
StatsB == Stats("stats", 2, Absent, FALSE)

\* answers of GET /learner/stats
StatsResp(kind, ok, parse, stats) ==
    [kind |-> kind, ok |-> ok, parse |-> parse, stats |-> stats]
StatsResponses ==
    {StatsResp("transport", FALSE, FALSE, NoStats),
     StatsResp("http", FALSE, FALSE, NoStats),
     StatsResp("http", TRUE, FALSE, NoStats),
     StatsResp("http", TRUE, TRUE, StatsA),
     StatsResp("http", TRUE, TRUE, StatsB)}

\* what fetchAll of the federation dashboard gets for /federation/health: the
\* parsed body, or null from the .catch of a failed fetch
FedResponses == {"h1", "null"}

\* a resolveTheme call: its argument, the ambient preference it read, its
\* result and the caller ("init": useState initializer, "effect", "handler")
ResolveCall(p, amb, result, by) ==
    [p |-> p, ambient |-> amb, result |-> result, by |-> by]
NoResolve == ResolveCall("none", FALSE, "none", "none")

\* the credentials a LoginModal submission hands to register / login
Submit(op, pwLen) == [op |-> op, pwLen |-> pwLen]
NoSubmit == Submit("none", 0)

\* ------------------------------------------------------------------ state
VARIABLES
    variant,      \* "redirect" or "password": which AuthProvider is deployed
    mounted,      \* the mount effect (useEffect) has run
    user,         \* useState<User | null>
    loading,      \* useState(true)
    authEnabled,  \* useState(false) / useState(true)
    providers,    \* useState<AuthProviders>
    location,     \* window.location.href: the app or a provider login page
    calls,        \* store operations in flight, each suspended at an await
    nCalls,       \* number of store operations called so far
    last,         \* the store operation that completed in the last step
    query,        \* App: useState("")
    limit,        \* App: useState(10)
    searchMode,   \* App: useState<SearchMode>("hybrid")
    alpha,        \* App: useState(0.5), in tenths
    sLoading,     \* App: useState(false), the search loading flag
    sError,       \* App: useState<string | null>(null)
    cacheHit,     \* App: useState<boolean | null>(null)
    results,      \* App: useState<SearchResult[]>([])
    currentMode,  \* App: useState<SearchMode | null>(null)
    searches,     \* onSearch calls in flight, each suspended at its request
    nSearches,    \* number of onSearch calls so far; the latest one's number
    shown,        \* history: the onSearch call whose outcome was applied last
    sentAlpha,    \* history: the alpha of the request whose results are in `results`
    storageMode,  \* environment: localStorage works ("ok"), throws on every
                  \* access ("disabled") or throws on setItem ("full")
    storage,      \* localStorage item "theme" ("absent" when there is none)
    ambient,      \* matchMedia("(prefers-color-scheme: dark)").matches
    tPhase,       \* "boot", "scripted" (pre-render script ran), "rendered"
                  \* (first render committed), "live", "crashed" (tree unmounted)
    theme,        \* ThemeProvider: useState<ThemeMode>
    resolvedTheme, \* ThemeProvider: useState<"light" | "dark">
    rootClasses,  \* document.documentElement.classList, light / dark only
    tQueue,       \* setThemeState updates queued for the next render
    effectsPending, \* the [theme] effects of the last commit have not run yet
    subscribed,   \* the subscription effect holds a cleanup (it registered)
    listeners,    \* number of "change" handlers registered on the media query
    nSets,        \* number of setTheme calls so far
    lastSet,      \* history: the preference written last (initially the loaded one)
    lastResolve,  \* history: the last resolveTheme call and what it returned
    scriptAmbient, \* history: the ambient preference when the pre-render script ran
    lmOpen,       \* App: showLoginModal
    lmMode,       \* LoginModal: useState<'login' | 'register'>('login')
    lmEmail,      \* LoginModal: the email input is filled in
    lmPassword,   \* LoginModal: length of the password input's value
    lmLoading,    \* LoginModal: useState(false)
    lmError,      \* LoginModal: useState('')
    lmCall,       \* the store call the mounted LoginModal is awaiting (0: none)
    submitted,    \* history: the credentials handleSubmit handed to the store last
    view,         \* the view the Router renders: "none" (nothing rendered yet),
                  \* "app" or "federation"
    inst,         \* the number of the mounted view instance (0: none)
    nMounts,      \* number of view instances mounted so far
    timers,       \* live setInterval timers, each with its owning view instance
    nTimers,      \* number of setInterval calls so far
    cancels,      \* history: clearInterval calls per timer
    polls,        \* poll requests in flight (fetchStats / fetchAll at its await)
    nPolls,       \* number of poll requests issued so far
    learnerStats, \* App: useState<LearnerStats | null>(null)
    fedLoading,   \* Federation: useState(true), the dashboard loading flag
    fedHealth,    \* Federation: useState<HealthStatus | null>(null)
    lastPoll      \* history: how the stats poll that settled last ended

authVars == <<variant, mounted, user, loading, authEnabled, providers, location,
              calls, nCalls, last>>
searchVars == <<query, limit, searchMode, alpha, sLoading, sError, cacheHit,
                results, currentMode, searches, nSearches, shown, sentAlpha>>
themeVars == <<storageMode, storage, ambient, tPhase, theme, resolvedTheme,
               rootClasses, tQueue, effectsPending, subscribed, listeners, nSets,
               lastSet, lastResolve, scriptAmbient>>
modalVars == <<lmOpen, lmMode, lmEmail, lmPassword, lmLoading, lmError, lmCall,
               submitted>>
pollVars == <<view, inst, nMounts, timers, nTimers, cancels, polls, nPolls,
              learnerStats, fedLoading, fedHealth, lastPoll>>
vars == <<authVars, searchVars, themeVars, modalVars, pollVars>>

\* a store operation suspended at an await: op is the operation, pc the request
\* awaited, cap the authEnabled value its closure captured, mount whether it is
\* the mount effect's call, capsResp the capabilities answer it received,
\* probes the number of session probes and requests the number of backend
\* requests it has issued
Call(id, op, pc, cap, mount, capsResp, probes, requests) ==
    [id |-> id, op |-> op, pc |-> pc, cap |-> cap, mount |-> mount,
     capsResp |-> capsResp, probes |-> probes, requests |-> requests]
NoCall == Call(0, "none", "none", FALSE, FALSE, NoResp, 0, 0)

Done(c, resp, result, before) ==
    [call |-> c, resp |-> resp, result |-> result, userBefore |-> before]
NoneDone == Done(NoCall, NoResp, NoResult, Null)

\* the page the shell was loaded from
AppUrl == [path |-> "/", provider |-> ""]

AuthInit ==
    /\ variant \in {"redirect", "password"}
    /\ mounted = FALSE
    /\ user = Null
    /\ loading = TRUE
    /\ authEnabled = (variant = "password")
    /\ providers = NoProviders
    /\ location = AppUrl
    /\ calls = {}
    /\ nCalls = 0
    /\ last = NoneDone

SearchInit ==
    /\ query = ""
    /\ limit = 10
    /\ searchMode = "hybrid"
    /\ alpha = 5
    /\ sLoading = FALSE
    /\ sError = NoError
    /\ cacheHit = "null"
    /\ results = <<>>
    /\ currentMode = "null"
    /\ searches = {}
    /\ nSearches = 0
    /\ shown = 0
    /\ sentAlpha = Absent

\* the page before any script has run: no theme state, no class on the root
ThemeInit ==
    /\ tPhase = "boot"
    /\ theme = "none"
    /\ resolvedTheme = "none"
    /\ rootClasses = {}
    /\ tQueue = <<>>
    /\ effectsPending = FALSE
    /\ subscribed = FALSE
    /\ listeners = 0
    /\ nSets = 0
    /\ lastSet = "none"
    /\ lastResolve = NoResolve
    /\ scriptAmbient = FALSE

\* what the browser holds when the page loads: any stored value, any ambient
\* preference, storage working or not
StoredValues == {"absent", "", "light", "dark", "system", "bogus"}
ThemeEnvInit ==
    /\ storageMode \in {"ok", "disabled", "full"}
    /\ storage \in StoredValues
    /\ ambient \in BOOLEAN

\* a first visit with working storage and a light ambient preference
ThemeEnvDefault ==
    /\ storageMode = "ok"
    /\ storage = "absent"
    /\ ambient = FALSE

ModalInit ==
    /\ lmOpen = FALSE
    /\ lmMode = "login"
    /\ lmEmail = FALSE
    /\ lmPassword = 0
    /\ lmLoading = FALSE
    /\ lmError = ""
    /\ lmCall = 0
    /\ submitted = NoSubmit

\* nothing is rendered yet: no view, no timer, no poll
PollInit ==
    /\ view = "none"
    /\ inst = 0
    /\ nMounts = 0
    /\ timers = {}
    /\ nTimers = 0
    /\ cancels = <<>>
    /\ polls = {}
    /\ nPolls = 0
    /\ learnerStats = NoStats
    /\ fedLoading = TRUE
    /\ fedHealth = "null"
    /\ lastPoll = "none"

Init == AuthInit /\ SearchInit /\ ThemeInit /\ ThemeEnvDefault /\ ModalInit /\ PollInit

\* ------------------------------------------------- Session Store: the code
\* setUser(payload): React state is replaced by the payload as a unit
SetUserMerged(old, payload) ==
    IF old.tag = "session" /\ payload.tag = "session"
    THEN [f \in DOMAIN payload |->
            IF payload[f] = "absent" THEN old[f] ELSE payload[f]]
    ELSE payload
SetUser(old, payload) == payload

\* a rejected fetch or a body res.json() cannot parse throws into the catch block
\* (refreshUser reads the body only of an ok response)
RefreshThrows(r) == r.kind = "transport" \/ (r.ok /\ ~r.parse)

\* setAuthEnabled(providersData.enabled || false), only when providersRes.ok
EnabledAfterCapsDefaultOn(r, en) == IF r.ok THEN r.flag # "false" ELSE en
EnabledAfterCaps(r, en) == IF r.ok THEN r.flag = "true" ELSE en

\* setProviders(providersData.providers || { google: false, microsoft: false })
ProvidersAfterCaps(r, p) ==
    IF r.ok
    THEN (IF "absent" \in DOMAIN r.providers THEN NoProviders ELSE r.providers)
    ELSE p

\* `if (authEnabled)` in refreshUser reads the value its closure captured when
\* the function was created, not the value setAuthEnabled has just queued
ProbeWantedAlways(c, r, en) == TRUE
ProbeWanted(c, r, en) == c.cap

\* the user state after the /me answer: the ok branch, the catch block, or neither
UserAfterProbe(r, u) ==
    IF RefreshThrows(r) THEN Null
    ELSE IF r.ok
         THEN (IF r.flag = "true" /\ Truthy(r.user) THEN SetUser(u, r.user) ELSE Null)
         ELSE u

\* finally { setLoading(false) } of refreshUser
SettleLoadingOnSuccessOnly(r, l) == IF r.kind = "http" /\ r.ok THEN FALSE ELSE l
SettleLoading(r, l) == FALSE

\* refreshUser has no setLoading(true): a call leaves loading as it is
LoadingAtRefreshStartSet(l) == TRUE
LoadingAtRefreshStart(l) == l

\* register / login: `const data = await res.json()` runs for every status
PostThrows(r) == r.kind = "transport" \/ ~r.parse
\* if (res.ok && data.ok)
PostSucceeds(r) == ~PostThrows(r) /\ r.ok /\ r.flag = "true"
GenericFailure(op) == IF op = "register" THEN "Registration failed" ELSE "Login failed"
UserAfterPostKeepsOld(r, u) == u
UserAfterPostClearedOnFailure(r, u) == IF PostSucceeds(r) THEN SetUser(u, r.user) ELSE Null
UserAfterPost(r, u) == IF PostSucceeds(r) THEN SetUser(u, r.user) ELSE u
PostResult(op, r) ==
    IF PostThrows(r) THEN Result(FALSE, "Network error")
    ELSE IF PostSucceeds(r) THEN Result(TRUE, "none")
    ELSE Result(FALSE, IF r.detail # "absent" THEN r.detail ELSE GenericFailure(op))

\* logout: setUser(null) follows the awaited fetch inside the try block
UserAfterLogout(r, u) == IF r.kind = "transport" THEN u ELSE Null

\* --------------------------------------------- Session Store: the actions
\* the first request of refreshUser: the capabilities fetch (redirect variant)
\* or the session probe (password variant)
StartRefresh(isMount) ==
    /\ nCalls' = nCalls + 1
    /\ calls' = calls \cup
         {IF variant = "redirect"
          THEN Call(nCalls + 1, "refreshUser", "caps", authEnabled, isMount, NoResp, 0, 1)
          ELSE Call(nCalls + 1, "refreshUser", "me", authEnabled, isMount, NoResp, 1, 1)}
    /\ loading' = LoadingAtRefreshStart(loading)
    /\ last' = NoneDone
    /\ UNCHANGED <<variant, user, authEnabled, providers, location>>
    /\ UNCHANGED <<searchVars, themeVars, modalVars, pollVars>>

\* useEffect(() => { refreshUser(); }, [])
Mount ==
    /\ ~mounted
    /\ mounted' = TRUE
    /\ StartRefresh(TRUE)

\* refreshUser() called through the context value
RefreshUser ==
    /\ mounted
    /\ nCalls < MaxCalls
    /\ UNCHANGED mounted
    /\ StartRefresh(FALSE)

\* the capabilities fetch of a refreshUser settles with answer r
CapsResolve(c, r) ==
    /\ c \in calls /\ c.pc = "caps"
    /\ LET c2 == [c EXCEPT !.capsResp = r] IN
       IF RefreshThrows(r)
       THEN /\ user' = Null
            /\ loading' = SettleLoading(r, loading)
            /\ calls' = calls \ {c}
            /\ last' = Done(c2, r, NoResult, user)
            /\ UNCHANGED <<authEnabled, providers>>
       ELSE /\ authEnabled' = EnabledAfterCaps(r, authEnabled)
            /\ providers' = ProvidersAfterCaps(r, providers)
            /\ IF ProbeWanted(c, r, authEnabled)
               THEN /\ calls' = (calls \ {c}) \cup
                                 {[c2 EXCEPT !.pc = "me", !.probes = c.probes + 1,
                                             !.requests = c.requests + 1]}
                    /\ last' = NoneDone
                    /\ UNCHANGED <<user, loading>>
               ELSE /\ calls' = calls \ {c}
                    /\ loading' = SettleLoading(r, loading)
                    /\ last' = Done(c2, r, NoResult, user)
                    /\ UNCHANGED user
    /\ UNCHANGED <<variant, mounted, location, nCalls>>
    /\ UNCHANGED <<searchVars, themeVars, modalVars, pollVars>>

\* the session probe (GET /api/v1/auth/me) of a refreshUser settles with answer r
MeResolve(c, r) ==
    /\ c \in calls /\ c.pc = "me"
    /\ user' = UserAfterProbe(r, user)
    /\ loading' = SettleLoading(r, loading)
    /\ calls' = calls \ {c}
    /\ last' = Done(c, r, NoResult, user)
    /\ UNCHANGED <<variant, mounted, authEnabled, providers, location, nCalls>>
    /\ UNCHANGED <<searchVars, themeVars, modalVars, pollVars>>

\* register(email, password, name?) / login(email, password): one POST is sent
PostCall(op) ==
    /\ variant = "password"
    /\ mounted
    /\ nCalls < MaxCalls
    /\ nCalls' = nCalls + 1
    /\ calls' = calls \cup {Call(nCalls + 1, op, "post", authEnabled, FALSE, NoResp, 0, 1)}
    /\ last' = NoneDone
    /\ UNCHANGED <<variant, mounted, user, loading, authEnabled, providers, location>>
    /\ UNCHANGED <<searchVars, themeVars, pollVars>>

\* register / login called through the context value, whoever the caller is
Register == PostCall("register") /\ UNCHANGED modalVars
Login == PostCall("login") /\ UNCHANGED modalVars

\* the POST of a register / login settles with answer r
PostResolve(c, r) ==
    /\ c \in calls /\ c.pc = "post"
    /\ user' = UserAfterPost(r, user)
    /\ calls' = calls \ {c}
    /\ last' = Done(c, r, PostResult(c.op, r), user)
    /\ UNCHANGED <<variant, mounted, loading, authEnabled, providers, location, nCalls>>
    /\ UNCHANGED <<searchVars, themeVars, pollVars>>

\* `${apiBase}/api/v1/auth/${provider}/login`
LoginUrlOfCallback(p) == [path |-> "/api/v1/auth/{provider}/callback", provider |-> p]
LoginUrl(p) == [path |-> "/api/v1/auth/{provider}/login", provider |-> p]

\* login(provider) of the redirect variant: window.location.href = ...
LoginRedirect(p) ==
    /\ variant = "redirect"
    /\ mounted
    /\ location' = LoginUrl(p)
    /\ last' = NoneDone
    /\ UNCHANGED <<variant, mounted, user, loading, authEnabled, providers, calls, nCalls>>
    /\ UNCHANGED <<searchVars, themeVars, modalVars, pollVars>>

\* logout(): POST /api/v1/auth/logout is sent
Logout ==
    /\ mounted
    /\ nCalls < MaxCalls
    /\ nCalls' = nCalls + 1
    /\ calls' = calls \cup {Call(nCalls + 1, "logout", "logout", authEnabled, FALSE, NoResp, 0, 1)}
    /\ last' = NoneDone
    /\ UNCHANGED <<variant, mounted, user, loading, authEnabled, providers, location>>
    /\ UNCHANGED <<searchVars, themeVars, modalVars, pollVars>>

\* the logout POST settles with answer r
LogoutResolve(c, r) ==
    /\ c \in calls /\ c.pc = "logout"
    /\ user' = UserAfterLogout(r, user)
    /\ calls' = calls \ {c}
    /\ last' = Done(c, r, NoResult, user)
    /\ UNCHANGED <<variant, mounted, loading, authEnabled, providers, location, nCalls>>
    /\ UNCHANGED <<searchVars, themeVars, modalVars, pollVars>>

CapsSettles == \E c \in calls : \E r \in CapsResponses : CapsResolve(c, r)
MeSettles == \E c \in calls : \E r \in MeResponses : MeResolve(c, r)
PostSettles ==
    \E c \in calls : \E r \in PostResponses : PostResolve(c, r) /\ UNCHANGED modalVars
LogoutSettles == \E c \in calls : \E r \in LogoutResponses : LogoutResolve(c, r)
RedirectLogin == \E p \in {"google", "microsoft"} : LoginRedirect(p)

AuthNext ==
    \/ Mount
    \/ RefreshUser
    \/ CapsSettles
    \/ MeSettles
    \/ Register
    \/ Login
    \/ PostSettles
    \/ RedirectLogin
    \/ Logout
    \/ LogoutSettles

Next == AuthNext
Spec == Init /\ [][Next]_vars

\* ------------------------------------------------- search orchestrator: code
\* qsearchSearch / qsearchHybrid throw on a rejected fetch, on a failure status
\* and on a body res.json() cannot parse
SearchThrows(r) == r.kind = "transport" \/ ~r.ok \/ ~r.parse

\* err?.message of what qsearchSearch / qsearchHybrid threw
SearchErrorMessage(mode, r) ==
    IF r.kind = "transport" THEN ErrorMsg("Failed to fetch", 0, "")
    ELSE IF ~r.ok
         THEN ErrorMsg(IF mode = "hybrid" THEN "qsearch hybrid API error: "
                                          ELSE "qsearch API error: ",
                       r.status, r.body)
         ELSE ErrorMsg("SyntaxError", 0, "")

\* res.results || []
ResultsOf(r) == IF r.hasResults THEN r.results ELSE <<>>

\* Boolean(res.cache_hit)
CacheHitRaw(r) == r.cache_hit
CacheHitOf(r) == IF r.cache_hit = "true" THEN "true" ELSE "false"

\* setResults(res.results || []): the state is replaced, not added to
AppliedResultsAppended(old, r) == old \o ResultsOf(r)
AppliedResults(old, r) == ResultsOf(r)

\* onSearch applies whatever answer arrives: there is no check that the call
\* is still the latest one
MayApplyLatestOnly(s, latest) == s.id = latest
MayApply(s, latest) == TRUE

\* alpha.toFixed(1): the slider moves in steps of 0.1, alpha is held in tenths
AlphaLabel(a) == [units |-> a \div 10, tenths |-> a % 10]

\* the status line of the App: the error when there is one, else nothing
\* while currentMode is null, else the mode tag
ShownError == sError
ShownMode == IF sError # NoError THEN "null" ELSE currentMode

\* the blend weight next to the Hybrid tag: the alpha state of this render
ShownAlpha == IF ShownMode = "hybrid" THEN AlphaLabel(alpha) ELSE AlphaLabel(Absent)

\* the cache indicator next to the Local tag
ShownCache ==
    IF ShownMode = "local" /\ cacheHit # "null"
    THEN (IF cacheHit = "true" THEN "hit" ELSE "miss")
    ELSE "none"

\* the result cards: a skeleton while loading, else results.map in index order
ShownResults == IF sLoading THEN <<>> ELSE [i \in 1..Len(results) |-> results[i]]

\* Number(v || 0): a missing (or zero) field becomes the number 0
OrZeroRaw(v) == v
OrZero(v) == IF v = Absent \/ v = 0 THEN 0 ELSE v

\* the metrics of each result card: Serper position, basin distance and hybrid
\* score when currentMode is hybrid, the distance otherwise (a metric the
\* card does not render is Absent)
ShownMetrics ==
    [i \in 1..Len(ShownResults) |->
        IF currentMode = "hybrid"
        THEN [serper |-> ShownResults[i].serper_position,
              d |-> OrZero(ShownResults[i].basin_distance),
              h |-> OrZero(ShownResults[i].hybrid_score)]
        ELSE [serper |-> Absent,
              d |-> OrZero(ShownResults[i].distance),
              h |-> Absent]]

\* ---------------------------------------------- search orchestrator: actions
SetQuery(q) ==
    /\ q # query
    /\ query' = q
    /\ UNCHANGED <<limit, searchMode, alpha, sLoading, sError, cacheHit, results,
                   currentMode, searches, nSearches, shown, sentAlpha>>
    /\ UNCHANGED <<authVars, themeVars, modalVars, pollVars>>

SetLimit(n) ==
    /\ n # limit
    /\ limit' = n
    /\ UNCHANGED <<query, searchMode, alpha, sLoading, sError, cacheHit, results,
                   currentMode, searches, nSearches, shown, sentAlpha>>
    /\ UNCHANGED <<authVars, themeVars, modalVars, pollVars>>

SetSearchMode(m) ==
    /\ m # searchMode
    /\ searchMode' = m
    /\ UNCHANGED <<query, limit, alpha, sLoading, sError, cacheHit, results,
                   currentMode, searches, nSearches, shown, sentAlpha>>
    /\ UNCHANGED <<authVars, themeVars, modalVars, pollVars>>

\* the blend slider is rendered only in hybrid mode
SetAlpha(a) ==
    /\ searchMode = "hybrid"
    /\ a # alpha
    /\ alpha' = a
    /\ UNCHANGED <<query, limit, searchMode, sLoading, sError, cacheHit, results,
                   currentMode, searches, nSearches, shown, sentAlpha>>
    /\ UNCHANGED <<authVars, themeVars, modalVars, pollVars>>

\* onSearch up to its await: the visible state is cleared and the request sent
OnSearch ==
    /\ nSearches < MaxSearches
    /\ nSearches' = nSearches + 1
    /\ sError' = NoError
    /\ sLoading' = TRUE
    /\ results' = <<>>
    /\ cacheHit' = "null"
    /\ currentMode' = "null"
    /\ shown' = 0
    /\ sentAlpha' = Absent
    /\ searches' = searches \cup
         {SearchCall(nSearches + 1, searchMode,
                     SearchRequest(searchMode, query, limit, alpha))}
    /\ UNCHANGED <<query, limit, searchMode, alpha>>
    /\ UNCHANGED <<authVars, themeVars, modalVars, pollVars>>

\* onSearch after its await: the request of call s settles with answer r
SearchResolve(s, r) ==
    /\ s \in searches
    /\ searches' = searches \ {s}
    /\ IF MayApply(s, nSearches)
       THEN /\ shown' = s.id
            /\ IF SearchThrows(r)
               THEN /\ sError' = SearchErrorMessage(s.mode, r)
                    /\ UNCHANGED <<results, cacheHit, currentMode, sentAlpha>>
               ELSE /\ results' = AppliedResults(results, r)
                    /\ sentAlpha' = s.request.alpha
                    /\ cacheHit' = IF s.mode = "hybrid" THEN cacheHit ELSE CacheHitOf(r)
                    /\ currentMode' = s.mode
                    /\ UNCHANGED sError
       ELSE UNCHANGED <<shown, sentAlpha, sError, results, cacheHit, currentMode>>
    /\ sLoading' = FALSE
    /\ UNCHANGED <<query, limit, searchMode, alpha, nSearches>>
    /\ UNCHANGED <<authVars, themeVars, modalVars, pollVars>>

QueryTyped == \E q \in Queries : SetQuery(q)
LimitTyped == \E n \in Limits : SetLimit(n)
ModeChosen == \E m \in {"local", "hybrid"} : SetSearchMode(m)
AlphaMoved == \E a \in Alphas : SetAlpha(a)
SearchSettles == \E s \in searches : \E r \in SearchResponses : SearchResolve(s, r)

SearchNext ==
    \/ QueryTyped
    \/ LimitTyped
    \/ ModeChosen
    \/ AlphaMoved
    \/ OnSearch
    \/ SearchSettles

SearchSpec == Init /\ [][SearchNext]_vars

\* The search form: its submit button carries disabled={loading}, and a form
\* whose default button is disabled is submitted neither by a click nor by
\* Enter in one of its inputs, so the form calls onSearch only while loading
\* is false.
SubmitEnabledAlways(l) == TRUE
SubmitEnabled(l) == ~l
SubmitForm == SubmitEnabled(sLoading) /\ OnSearch

FormNext ==
    \/ QueryTyped
    \/ LimitTyped
    \/ ModeChosen
    \/ AlphaMoved
    \/ SubmitForm
    \/ SearchSettles

FormSpec == Init /\ [][FormNext]_vars

\* every issued request eventually completes or fails, and the mount effect runs
FairSpec ==
    /\ Spec
    /\ WF_vars(Mount)
    /\ WF_vars(CapsSettles)
    /\ WF_vars(MeSettles)
    /\ WF_vars(PostSettles)
    /\ WF_vars(LogoutSettles)

\* ------------------------------------------------------ Theme Resolver: code
\* resolveTheme(theme): the ambient preference is read only for "system"
ResolveThemeLightDefault(p, amb) == IF p = "system" THEN "light" ELSE p
ResolveTheme(p, amb) ==
    IF p = "system" THEN (IF amb THEN "dark" ELSE "light") ELSE p

\* applyThemeClass(resolved): classList.remove("light", "dark"); classList.add(resolved)
ApplyThemeClassAddOnly(classes, resolved) == classes \cup {resolved}
ApplyThemeClass(classes, resolved) == (classes \ {"light", "dark"}) \cup {resolved}

\* the useState initializer of theme: a saved value is kept only when it is one
\* of the three modes
InitialThemeUnchecked(saved) == IF saved \in {"absent", ""} THEN "system" ELSE saved
InitialTheme(saved) ==
    IF saved \in {"light", "dark", "system"} THEN saved ELSE "system"

\* the pre-render script: localStorage.getItem("theme") || "system", then the
\* saved mode or the ambient preference
ScriptResolvedSavedOnly(saved, amb) == IF saved = "dark" THEN "dark" ELSE "light"
ScriptResolved(saved, amb) ==
    LET s == IF saved \in {"absent", ""} THEN "system" ELSE saved
    IN IF s \in {"dark", "light"} THEN s ELSE (IF amb THEN "dark" ELSE "light")

\* classList.toggle("dark", resolved === "dark")
ScriptClasses(classes, resolved) ==
    IF resolved = "dark" THEN classes \cup {"dark"} ELSE classes \ {"dark"}

\* localStorage.getItem / localStorage.setItem throw in these environments
ReadThrows(mode) == mode = "disabled"
WriteThrows(mode) == mode \in {"disabled", "full"}

\* localStorage.setItem("theme", theme): the mode is stored, not the resolved value
PersistedValueResolved(t, resolved) == resolved
PersistedValue(t, resolved) == t

\* the subscription effect: if (theme !== "system") return; otherwise it adds
\* the "change" listener
SubscribesAlways(t) == TRUE
Subscribes(t) == t = "system"

\* the cleanup the subscription effect returned: m.removeEventListener("change", handler)
ListenersAfterCleanupLeaking(n, sub) == n
ListenersAfterCleanup(n, sub) == IF sub THEN n - 1 ELSE n

\* setThemeState updates queued before a render: the last one is the new state
QueuedThemeFirst(q) == q[1]
QueuedTheme(q) == q[Len(q)]

\* the "change" handler: resolveTheme("system") at notification time
HandlerResolvedStale(amb, old) == old
HandlerResolved(amb, old) == ResolveTheme("system", amb)

\* --------------------------------------------------- Theme Resolver: actions
ThemeMounted == tPhase \in {"rendered", "live"}

\* the script that runs before React renders; a storage failure is caught and
\* ignored, leaving the root's classes alone
PreRenderScript ==
    /\ tPhase = "boot"
    /\ tPhase' = "scripted"
    /\ rootClasses' = IF ReadThrows(storageMode) THEN rootClasses
                      ELSE ScriptClasses(rootClasses, ScriptResolved(storage, ambient))
    /\ scriptAmbient' = ambient
    /\ UNCHANGED <<storageMode, storage, ambient, theme, resolvedTheme, tQueue,
                   effectsPending, subscribed, listeners, nSets, lastSet, lastResolve>>
    /\ UNCHANGED <<authVars, searchVars, modalVars, pollVars>>

\* the first render of ThemeProvider: both useState initializers run; a throw
\* of localStorage.getItem is not caught, so nothing is mounted
InitialRender ==
    /\ tPhase = "scripted"
    /\ IF ReadThrows(storageMode)
       THEN /\ tPhase' = "crashed"
            /\ UNCHANGED <<theme, resolvedTheme, effectsPending, lastSet, lastResolve>>
       ELSE /\ tPhase' = "rendered"
            /\ theme' = InitialTheme(storage)
            /\ resolvedTheme' = ResolveTheme(theme', ambient)
            /\ lastResolve' = ResolveCall(theme', ambient, resolvedTheme', "init")
            /\ effectsPending' = TRUE
            /\ lastSet' = theme'
    /\ UNCHANGED <<storageMode, storage, ambient, rootClasses, tQueue, subscribed,
                   listeners, nSets, scriptAmbient>>
    /\ UNCHANGED <<authVars, searchVars, modalVars, pollVars>>

\* setTheme(p) = setThemeState(p), called from the theme selector of the
\* mounted App: the update is queued, nothing else happens
SetTheme(p) ==
    /\ tPhase = "live"
    /\ nSets < MaxThemeSets
    /\ nSets' = nSets + 1
    /\ tQueue' = Append(tQueue, p)
    /\ lastSet' = p
    /\ UNCHANGED <<storageMode, storage, ambient, tPhase, theme, resolvedTheme,
                   rootClasses, effectsPending, subscribed, listeners, lastResolve,
                   scriptAmbient>>
    /\ UNCHANGED <<authVars, searchVars, modalVars, pollVars>>

\* React renders the queued updates (pending effects are flushed before a new
\* render); the [theme] effects are scheduled when theme changed
RenderTheme ==
    /\ ThemeMounted
    /\ tQueue # <<>>
    /\ ~effectsPending
    /\ theme' = QueuedTheme(tQueue)
    /\ tQueue' = <<>>
    /\ effectsPending' = (theme' # theme)
    /\ UNCHANGED <<storageMode, storage, ambient, tPhase, resolvedTheme, rootClasses,
                   subscribed, listeners, nSets, lastSet, lastResolve, scriptAmbient>>
    /\ UNCHANGED <<authVars, searchVars, modalVars, pollVars>>

\* the two [theme] effects run: the old subscription's cleanup, then resolve,
\* apply and persist, then subscribe when theme is "system".  A throw of
\* localStorage.setItem is not caught: React unmounts the tree, which also runs
\* the cleanup of the subscription just made.
RunEffects ==
    /\ ThemeMounted
    /\ effectsPending
    /\ effectsPending' = FALSE
    /\ LET cleaned == ListenersAfterCleanup(listeners, subscribed)
           resolved == ResolveTheme(theme, ambient)
       IN /\ resolvedTheme' = resolved
          /\ lastResolve' = ResolveCall(theme, ambient, resolved, "effect")
          /\ rootClasses' = ApplyThemeClass(rootClasses, resolved)
          /\ IF WriteThrows(storageMode)
             THEN /\ tPhase' = "crashed"
                  /\ listeners' = cleaned
                  /\ subscribed' = FALSE
                  /\ UNCHANGED storage
             ELSE /\ tPhase' = "live"
                  /\ storage' = PersistedValue(theme, resolved)
                  /\ listeners' = IF Subscribes(theme) THEN cleaned + 1 ELSE cleaned
                  /\ subscribed' = Subscribes(theme)
    /\ UNCHANGED <<storageMode, ambient, theme, tQueue, nSets, lastSet, scriptAmbient>>
    /\ UNCHANGED <<authVars, searchVars, modalVars, pollVars>>

\* the operating environment switches between light and dark; the media query
\* notifies the registered handler, if any
AmbientChange ==
    /\ ambient' = ~ambient
    /\ IF listeners > 0
       THEN LET resolved == HandlerResolved(ambient', resolvedTheme)
            IN /\ resolvedTheme' = resolved
               /\ rootClasses' = ApplyThemeClass(rootClasses, resolved)
               /\ lastResolve' = ResolveCall("system", ambient', resolved, "handler")
       ELSE UNCHANGED <<resolvedTheme, rootClasses, lastResolve>>
    /\ UNCHANGED <<storageMode, storage, tPhase, theme, tQueue, effectsPending,
                   subscribed, listeners, nSets, lastSet, scriptAmbient>>
    /\ UNCHANGED <<authVars, searchVars, modalVars, pollVars>>

ThemeSet == \E p \in {"light", "dark", "system"} : SetTheme(p)

ThemeNext ==
    \/ PreRenderScript
    \/ InitialRender
    \/ ThemeSet
    \/ RenderTheme
    \/ RunEffects
    \/ AmbientChange

ThemeSpecInit ==
    AuthInit /\ SearchInit /\ ThemeInit /\ ThemeEnvInit /\ ModalInit /\ PollInit
ThemeSpec == ThemeSpecInit /\ [][ThemeNext]_vars

\* ----------------------------------------------------------- LoginModal: code
\* the password input: `required` rejects the empty value, minLength={6} a
\* shorter one; the browser validates before it fires the submit event
PasswordValidRequiredOnly(n) == n > 0
PasswordValid(n) == n > 0 /\ n >= MinLength

\* the form can be submitted: valid fields and an enabled submit button
FormSubmittable == lmEmail /\ PasswordValid(lmPassword) /\ ~lmLoading

\* setError(result.error || 'Registration failed' / 'Login failed')
ModalError(op, result) ==
    IF result.error \in {"", "none"} THEN GenericFailure(op) ELSE result.error

\* -------------------------------------------------------- LoginModal: actions
\* the Sign In button of the App, rendered when authEnabled && !authLoading and
\* not authenticated
OpenModal ==
    /\ mounted /\ variant = "password"
    /\ authEnabled /\ ~loading /\ ~Truthy(user)
    /\ ~lmOpen
    /\ lmOpen' = TRUE
    /\ UNCHANGED <<lmMode, lmEmail, lmPassword, lmLoading, lmError, lmCall, submitted>>
    /\ UNCHANGED <<authVars, searchVars, themeVars, pollVars>>

\* onClose(): showLoginModal becomes false and the LoginModal is unmounted, so
\* the next one starts from its initial state
CloseModal ==
    /\ lmOpen
    /\ lmOpen' = FALSE
    /\ lmMode' = "login"
    /\ lmEmail' = FALSE
    /\ lmPassword' = 0
    /\ lmLoading' = FALSE
    /\ lmError' = ""
    /\ lmCall' = 0
    /\ UNCHANGED submitted
    /\ UNCHANGED <<authVars, searchVars, themeVars, pollVars>>

SwitchMode ==
    /\ lmOpen
    /\ lmMode' = IF lmMode = "login" THEN "register" ELSE "login"
    /\ lmError' = ""
    /\ UNCHANGED <<lmOpen, lmEmail, lmPassword, lmLoading, lmCall, submitted>>
    /\ UNCHANGED <<authVars, searchVars, themeVars, pollVars>>

SetPassword(n) ==
    /\ lmOpen
    /\ n # lmPassword
    /\ lmPassword' = n
    /\ UNCHANGED <<lmOpen, lmMode, lmEmail, lmLoading, lmError, lmCall, submitted>>
    /\ UNCHANGED <<authVars, searchVars, themeVars, pollVars>>

SetEmail(filled) ==
    /\ lmOpen
    /\ filled # lmEmail
    /\ lmEmail' = filled
    /\ UNCHANGED <<lmOpen, lmMode, lmPassword, lmLoading, lmError, lmCall, submitted>>
    /\ UNCHANGED <<authVars, searchVars, themeVars, pollVars>>

\* the form is submitted and handleSubmit runs up to its await: register or
\* login is called with the typed credentials
HandleSubmit ==
    /\ lmOpen
    /\ FormSubmittable
    /\ lmError' = ""
    /\ lmLoading' = TRUE
    /\ lmCall' = nCalls + 1
    /\ submitted' = Submit(lmMode, lmPassword)
    /\ PostCall(lmMode)
    /\ UNCHANGED <<lmOpen, lmMode, lmEmail, lmPassword>>

\* the POST settles and handleSubmit continues: onClose() on success, setError
\* otherwise, setLoading(false) at the end; the state setters do nothing when
\* the LoginModal that submitted has been unmounted
HandleSubmitResolve(c, r) ==
    /\ PostResolve(c, r)
    /\ LET result == PostResult(c.op, r) IN
       IF result.ok
       THEN /\ lmOpen' = FALSE
            /\ lmMode' = "login"
            /\ lmEmail' = FALSE
            /\ lmPassword' = 0
            /\ lmLoading' = FALSE
            /\ lmError' = ""
            /\ lmCall' = 0
       ELSE IF c.id = lmCall
            THEN /\ lmError' = ModalError(c.op, result)
                 /\ lmLoading' = FALSE
                 /\ lmCall' = 0
                 /\ UNCHANGED <<lmOpen, lmMode, lmEmail, lmPassword>>
            ELSE UNCHANGED <<lmOpen, lmMode, lmEmail, lmPassword, lmLoading,
                             lmError, lmCall>>
    /\ UNCHANGED submitted

PasswordTyped == \E n \in 0..MaxPwLen : SetPassword(n)
EmailTyped == \E f \in BOOLEAN : SetEmail(f)
SubmitSettles == \E c \in calls : \E r \in PostResponses : HandleSubmitResolve(c, r)

ModalNext ==
    \/ Mount
    \/ MeSettles
    \/ OpenModal
    \/ CloseModal
    \/ SwitchMode
    \/ PasswordTyped
    \/ EmailTyped
    \/ HandleSubmit
    \/ SubmitSettles

ModalSpec == Init /\ [][ModalNext]_vars

\* ------------------------------------------------------ periodic pollers: code
\* a timer setInterval returned, with the view instance whose effect created it
Timer(id, v, i) == [id |-> id, view |-> v, inst |-> i]

\* a poll request in flight: fetchStats of the App or fetchAll of the
\* federation dashboard, called by the mount effect or by the timer
Poll(id, v, i, by) == [id |-> id, view |-> v, inst |-> i, by |-> by]

\* the effect cleanup of view instance i: clearInterval(interval) cancels the
\* timer that instance's effect created
TimersAfterCleanupLeaking(ts, i) == ts
TimersAfterCleanup(ts, i) == {t \in ts : t.inst # i}

\* getLearnerStats throws on a rejected fetch, on a failure status and on a
\* body res.json() cannot parse
StatsThrows(r) == r.kind = "transport" \/ ~r.ok \/ ~r.parse

\* fetchStats: setLearnerStats(stats) on success, the catch block ignores
\* whatever was thrown
StatsAfterPollClearedOnFailure(old, r) == IF StatsThrows(r) THEN NoStats ELSE r.stats
StatsAfterPoll(old, r) == IF StatsThrows(r) THEN old ELSE r.stats

\* --------------------------------------------------- periodic pollers: actions
\* The Router renders view v: at the first render, or when the hash changes
\* to the other view.  The commit unmounts the view shown before, which runs
\* its effect cleanup and discards its state (the App's search state with
\* it: the next App instance starts from its useState initial values, and an
\* onSearch call of the old instance can change nothing any more), and mounts
\* v, whose mount effect issues one poll at once and starts the 30-second timer.
ShowView(v) ==
    /\ v # view
    /\ nMounts < MaxMounts
    /\ nPolls < MaxPolls
    /\ LET i == nMounts + 1
           kept == IF view = "none" THEN timers ELSE TimersAfterCleanup(timers, inst)
       IN  /\ timers' = kept \cup {Timer(nTimers + 1, v, i)}
           /\ cancels' = [k \in 1..(nTimers + 1) |->
                            IF k > nTimers THEN 0
                            ELSE IF \E t \in timers \ kept : t.id = k
                                 THEN cancels[k] + 1 ELSE cancels[k]]
           /\ polls' = polls \cup {Poll(nPolls + 1, v, i, "mount")}
           /\ inst' = i
           /\ nMounts' = i
    /\ view' = v
    /\ nTimers' = nTimers + 1
    /\ nPolls' = nPolls + 1
    /\ learnerStats' = NoStats
    /\ fedLoading' = TRUE
    /\ fedHealth' = "null"
    /\ lastPoll' = "none"
    /\ IF view = "app"
       THEN /\ query' = "" /\ limit' = 10 /\ searchMode' = "hybrid" /\ alpha' = 5
            /\ sLoading' = FALSE /\ sError' = NoError /\ cacheHit' = "null"
            /\ results' = <<>> /\ currentMode' = "null"
            /\ searches' = {} /\ shown' = 0 /\ sentAlpha' = Absent
            /\ UNCHANGED nSearches
       ELSE UNCHANGED searchVars
    /\ UNCHANGED <<authVars, themeVars, modalVars>>

\* timer t fires after 30 seconds: its callback issues the next poll;
\* fetchAll starts with setLoading(true), which reaches a mounted view only
Tick(t) ==
    /\ t \in timers
    /\ nPolls < MaxPolls
    /\ polls' = polls \cup {Poll(nPolls + 1, t.view, t.inst, "timer")}
    /\ nPolls' = nPolls + 1
    /\ fedLoading' = IF t.view = "federation" /\ t.inst = inst THEN TRUE ELSE fedLoading
    /\ UNCHANGED <<view, inst, nMounts, timers, nTimers, cancels, learnerStats,
                   fedHealth, lastPoll>>
    /\ UNCHANGED <<authVars, searchVars, themeVars, modalVars>>

\* fetchStats after its await: the request of poll p settles with answer r;
\* a state update of an unmounted view instance has no effect
StatsResolve(p, r) ==
    /\ p \in polls /\ p.view = "app"
    /\ polls' = polls \ {p}
    /\ learnerStats' = IF p.inst = inst THEN StatsAfterPoll(learnerStats, r)
                                        ELSE learnerStats
    /\ lastPoll' = IF StatsThrows(r) THEN "failed" ELSE "ok"
    /\ UNCHANGED <<view, inst, nMounts, timers, nTimers, cancels, nPolls,
                   fedLoading, fedHealth>>
    /\ UNCHANGED <<authVars, searchVars, themeVars, modalVars>>

\* fetchAll after its await: each of its fetches has its own .catch, so the
\* health state becomes the parsed body or null, and finally loading is false
FedResolve(p, h) ==
    /\ p \in polls /\ p.view = "federation"
    /\ polls' = polls \ {p}
    /\ fedHealth' = IF p.inst = inst THEN h ELSE fedHealth
    /\ fedLoading' = IF p.inst = inst THEN FALSE ELSE fedLoading
    /\ UNCHANGED <<view, inst, nMounts, timers, nTimers, cancels, nPolls,
                   learnerStats, lastPoll>>
    /\ UNCHANGED <<authVars, searchVars, themeVars, modalVars>>

ViewShown == \E v \in Views : ShowView(v)
TimerFires == \E t \in timers : Tick(t)
StatsSettles == \E p \in polls : \E r \in StatsResponses : StatsResolve(p, r)
FedSettles == \E p \in polls : \E h \in FedResponses : FedResolve(p, h)

\* a search submitted in the App while it is the view shown
AppSearch == view = "app" /\ OnSearch
AppSearchSettles == view = "app" /\ SearchSettles

PollNext ==
    \/ ViewShown
    \/ TimerFires
    \/ StatsSettles
    \/ FedSettles
    \/ AppSearch
    \/ AppSearchSettles

PollSpec == Init /\ [][PollNext]_vars

\* ------------------------------------------------ Session Store: properties
\* the answers the claims distinguish
ProbeAuthenticated(r) ==
    r.kind = "http" /\ r.ok /\ r.parse /\ r.flag = "true" /\ Truthy(r.user)
CapsEnabled(r) == r.kind = "http" /\ r.ok /\ r.parse /\ r.flag = "true"
CapsDisabled(r) ==
    r.kind = "http" /\ r.ok /\ r.parse /\ r.flag = "false" /\ r.providers = NoProviders
PostSuccessWithUser(r) ==
    r.kind = "http" /\ r.ok /\ r.parse /\ r.flag = "true" /\ Truthy(r.user)
PostSuccess(r) == r.kind = "http" /\ r.ok /\ r.parse /\ r.flag = "true"

\* the operation that completed in the last step
LogoutReturned == last.call.op = "logout"
ProbeReturned == last.call.op = "refreshUser" /\ last.call.pc = "me"
InitializeReturned == last.call.op = "refreshUser" /\ last.call.mount
PostReturned == last.call.op \in {"register", "login"}

\* the mount effect's refreshUser has run to its end
InitSettled == mounted /\ \A c \in calls : ~c.mount

\* C2: when logout has returned, user is null, whatever the backend answered
\* (success, failure status) and also when the request failed in transport.
C2_LogoutAlwaysClears == LogoutReturned => user = Null

\* C3: when a session probe has returned with any outcome other than a success
\* response with authenticated true and a user payload, user is null, whatever
\* it was before the probe.
C3_FailedProbeClears ==
    (ProbeReturned /\ ~ProbeAuthenticated(last.resp)) => user = Null

\* C4: when the capabilities answer of initialize reports an enabled
\* integration, initialize has issued exactly one session probe and the store
\* is authenticated exactly when that probe's answer carries a session.
C4_EnabledInitProbesOnce ==
    (InitializeReturned /\ CapsEnabled(last.call.capsResp)) =>
        /\ last.call.probes = 1
        /\ last.call.pc = "me"
        /\ Truthy(user) <=> ProbeAuthenticated(last.resp)

\* C5: when the capabilities answer of initialize reports no enabled
\* integration, initialize has issued no session probe, has left user as it
\* was (null when initialize is the only operation called so far) and loading
\* is false.
C5_DisabledInitNoProbe ==
    (InitializeReturned /\ CapsDisabled(last.call.capsResp)) =>
        /\ last.call.probes = 0
        /\ last.call.requests = 1
        /\ loading = FALSE
        /\ user = last.userBefore
        /\ (nCalls = 1 => user = Null)
C5_Witness ==
    /\ InitializeReturned /\ CapsDisabled(last.call.capsResp)
    /\ nCalls = 1 /\ user = Null /\ ~loading

\* C6: once the shell has mounted, initialize eventually ends and loading is
\* false, for every outcome of the capabilities fetch and of the session
\* probe, given that every issued request eventually completes or fails.
C6_InitEndsNotLoading == mounted ~> (InitSettled /\ loading = FALSE)
C6_Witness ==
    /\ InitializeReturned /\ InitSettled /\ ~loading
    /\ last.resp.kind = "transport"

\* C7: loading is true only while initialize has not ended; once false it
\* never becomes true again; no register, login or logout step changes it;
\* user is always either a whole Session (authenticated) or a falsy value
\* (anonymous), never both and never something else.
Authenticated == Truthy(user)
Anonymous == user \in {Null, Undefined}
AuthCallStep == Register \/ Login \/ PostSettles \/ Logout \/ LogoutSettles \/ RedirectLogin
C7_LoadingOnlyInitially ==
    /\ [](loading => ~InitSettled)
    /\ [](Authenticated # Anonymous)
    /\ [](Authenticated => user \in Sessions)
    /\ [][(~loading => ~loading') /\ (AuthCallStep => loading' = loading)]_vars
C7_Witness ==
    /\ ~loading /\ InitSettled
    /\ \E c \in calls : c.op = "refreshUser"
    /\ \E c \in calls : c.op = "login"

\* C8: when a session probe has returned a success response with
\* authenticated true and a user payload, the store is authenticated and user
\* equals that payload exactly, with no field kept from the previous Session.
C8_ProbeSuccessReplaces ==
    (ProbeReturned /\ ProbeAuthenticated(last.resp)) =>
        /\ Truthy(user)
        /\ user = last.resp.user
C8_Witness ==
    /\ ProbeReturned /\ ProbeAuthenticated(last.resp)
    /\ last.userBefore = SessionA /\ user = SessionB

\* C9: when register or login has returned for a success response (status ok,
\* body ok) that contains a user payload, it has made exactly one backend
\* request, user equals that payload and the reported result is {ok: true}.
C9_PostSuccessReplaces ==
    (PostReturned /\ PostSuccessWithUser(last.resp)) =>
        /\ last.call.requests = 1
        /\ user = last.resp.user
        /\ last.result = Result(TRUE, "none")
C9_Witness ==
    /\ PostReturned /\ PostSuccessWithUser(last.resp)
    /\ last.call.op = "register"
    /\ last.userBefore = SessionA /\ user = SessionB

\* C10: when register or login has returned for a response that is not a
\* success, the result is {ok: false} with the body's detail text when present
\* and the generic 'Registration failed' / 'Login failed' otherwise, and
\* 'Network error' is reported only on a transport failure.
C10_FailureReason ==
    (PostReturned /\ ~PostSuccess(last.resp)) =>
        /\ last.result.ok = FALSE
        /\ last.resp.kind = "http" =>
              last.result.error =
                 (IF last.resp.parse /\ last.resp.detail # "absent"
                  THEN last.resp.detail ELSE GenericFailure(last.call.op))
        /\ last.result.error = "Network error" => last.resp.kind = "transport"

\* ----------------------------------------------- search orchestrator: properties
\* C1: whatever outcome (response or failure) is applied to the visible state
\* (results, cache indicator, displayed mode, error) belongs to the most
\* recently submitted search, in every order in which the requests settle.
C1_OnlyLatestOutcomeApplied == shown # 0 => shown = nSearches

\* ------------------------------------------------------ LoginModal: properties
\* C11: no register or login call leaves the LoginModal with a password shorter
\* than 6 characters: the credentials handed to the store always have a
\* password of at least MinLength characters, and while the typed password is
\* shorter no step sends a request to /api/v1/auth/login or /register.
C11_ShortPasswordNeverSent ==
    /\ [](submitted.op # "none" => submitted.pwLen >= 6)
    /\ [][lmPassword < 6 => \A c \in calls' \ calls : c.pc # "post"]_vars
C11_Witness ==
    /\ lmOpen /\ lmEmail /\ ~lmLoading
    /\ lmPassword = 5
    /\ submitted = Submit("register", 6)
    /\ \A c \in calls : c.pc # "post"

\* C12: a redirect-flow login(provider) step sends no request and leaves user,
\* loading and the capabilities as they are; it only sets the location to
\* /api/v1/auth/{provider}/login; in the redirect flow the store becomes
\* authenticated only in a step that settles a session probe.
C12_RedirectLoginOnlyNavigates ==
    [][/\ RedirectLogin =>
            /\ UNCHANGED <<user, loading, authEnabled, providers, calls, nCalls>>
            /\ location'.path = "/api/v1/auth/{provider}/login"
            /\ location'.provider \in {"google", "microsoft"}
       /\ (variant = "redirect" /\ ~Truthy(user) /\ Truthy(user')) => MeSettles
      ]_vars
C12_Witness ==
    /\ variant = "redirect"
    /\ location = [path |-> "/api/v1/auth/{provider}/login", provider |-> "google"]
    /\ Truthy(user)
    /\ last.call.pc = "me"

\* ---------------------------------------------------- Theme Resolver: properties
ThemeModes == {"light", "dark", "system"}
\* the ResolvedTheme the ambient preference stands for
AmbientTheme == IF ambient THEN "dark" ELSE "light"
\* the ThemeProvider is mounted and its effects have run
ThemeSettled == tPhase = "live" /\ ~effectsPending

\* C13: with storage that fails on read or write the Theme Resolver does not
\* throw (the tree is never unmounted), treats the preference as system and
\* keeps applying the ambient preference.
C13_StorageFailureSwallowed ==
    storageMode # "ok" =>
        /\ tPhase # "crashed"
        /\ ThemeSettled =>
              (theme = "system" /\ resolvedTheme = AmbientTheme
               /\ rootClasses = {AmbientTheme})

\* C14: at most one ambient-change listener is ever registered, and once the
\* effects of a preference change have run, a listener is registered exactly
\* when the preference is system.
C14_ListenerExactlyWhileSystem ==
    /\ listeners \in {0, 1}
    /\ ThemeSettled => (listeners = 1 <=> theme = "system")
C14_Witness ==
    /\ ThemeSettled /\ theme = "system" /\ listeners = 1
    /\ nSets >= 2 /\ tQueue = <<>>
    /\ lastResolve.by = "effect"

\* C15: while the preference is system, an ambient-preference change
\* notification sets ResolvedTheme and the root class to the new ambient
\* preference without any setTheme call, so that a settled system preference
\* always shows the live ambient preference.
C15_AmbientChangeReapplied ==
    /\ []((ThemeSettled /\ theme = "system") =>
             (resolvedTheme = AmbientTheme /\ rootClasses = {AmbientTheme}))
    /\ [][(AmbientChange /\ theme = "system" /\ listeners > 0) =>
             /\ resolvedTheme' = AmbientTheme'
             /\ rootClasses' = {AmbientTheme'}
             /\ UNCHANGED <<theme, tQueue, nSets, storage>>]_vars
C15_Witness ==
    /\ ThemeSettled /\ theme = "system" /\ nSets = 0
    /\ lastResolve.by = "handler"
    /\ ambient /\ rootClasses = {"dark"}

\* C16: when setTheme(p) has returned (its update is queued), storage holds p
\* and the applied class is the resolved mode of p.
C16_SetPreferenceSynchronous ==
    tQueue # <<>> =>
        /\ storage = tQueue[Len(tQueue)]
        /\ rootClasses = {ResolveTheme(tQueue[Len(tQueue)], ambient)}

\* C17: once every queued preference change has been rendered and its effects
\* have run, the preference, the stored value and the applied mode are those
\* of the last setTheme call, however many calls were queued together.
C17_LastWriteWins ==
    (ThemeSettled /\ tQueue = <<>>) =>
        /\ theme = lastSet
        /\ storage = lastSet
        /\ resolvedTheme = ResolveTheme(lastSet, ambient)
        /\ rootClasses = {ResolveTheme(lastSet, ambient)}
C17_Witness ==
    /\ ThemeSettled /\ tQueue = <<>>
    /\ nSets >= 2
    /\ lastSet = "dark" /\ storage = "dark" /\ rootClasses = {"dark"}
    /\ ~ambient

\* C18: after the first render with readable storage, the preference is system
\* whenever the stored value is missing or is not one of light, dark, system;
\* the first render fails only when storage cannot be read.
C18_UnrecognizedLoadsSystem ==
    /\ (tPhase = "rendered" /\ storage \notin ThemeModes) =>
           (theme = "system" /\ lastSet = "system")
    /\ (tPhase = "crashed" /\ theme = "none") => storageMode = "disabled"
C18_Witness ==
    /\ tPhase = "rendered" /\ storage = "bogus"
    /\ theme = "system"

\* C19: once the effects have run, the stored value is the current preference,
\* one of light, dark, system, also when the preference is system and the
\* ambient preference resolves it to light or dark; an ambient change never
\* writes storage.
C19_OnlyPreferencePersisted ==
    /\ [](ThemeSettled => (storage = theme /\ storage \in ThemeModes))
    /\ [][AmbientChange => storage' = storage]_vars
C19_Witness ==
    /\ ThemeSettled /\ theme = "system" /\ storage = "system"
    /\ lastResolve.by = "handler"
    /\ resolvedTheme = "light" /\ nSets > 0

\* C20: every resolveTheme call returns light for light, dark for dark and,
\* for system, the ambient preference read at call time; the call of the
\* useState initializer changes neither storage nor the root's classes.
C20_ResolveIsPure ==
    /\ [](lastResolve.by # "none" =>
            /\ lastResolve.result \in {"light", "dark"}
            /\ lastResolve.p \in {"light", "dark"} => lastResolve.result = lastResolve.p
            /\ lastResolve.p = "system" =>
                  lastResolve.result = (IF lastResolve.ambient THEN "dark" ELSE "light"))
    /\ [][InitialRender => UNCHANGED <<storage, rootClasses, ambient>>]_vars
C20_Witness ==
    /\ lastResolve = ResolveCall("system", TRUE, "dark", "init")
    /\ tPhase = "rendered"

\* C21: a hybrid search posts {query, limit, alpha, learn: true} to /hybrid
\* with the alpha selected when it was submitted, and the blend weight shown
\* next to a visible hybrid outcome is the alpha of the request that produced
\* that outcome, also after the blend-weight control has been moved.
C21_HybridTaggedWithAlphaSent ==
    /\ \A s \in searches :
          s.mode = "hybrid" =>
             /\ s.request.path = "/hybrid"
             /\ s.request.learn
             /\ s.request.alpha \in Alphas
    /\ ShownMode = "hybrid" => ShownAlpha = AlphaLabel(sentAlpha)

\* C22: whenever the displayed mode is hybrid the cache-hit flag is unset, and
\* whenever it is local no blend weight is shown, after any sequence of
\* submissions in either mode.
C22_NoMixedProvenance ==
    /\ currentMode = "hybrid" => cacheHit = "null"
    /\ ShownMode = "local" => ShownAlpha = AlphaLabel(Absent)
    /\ currentMode = "null" => cacheHit = "null"
\* the answers the claims distinguish
SearchSucceeded(r) == r.kind = "http" /\ r.ok /\ r.parse
SearchFailed(r) == r.kind = "transport" \/ (r.kind = "http" /\ ~r.ok)

\* C23: a local search posts (query, limit) only, to the plain search path,
\* and when its response is applied cacheHit is true exactly when the
\* response's cache_hit is truthy and false otherwise, also when the field is
\* absent.
C23_LocalSearchTagsCacheHit ==
    /\ [](\A s \in searches :
            s.mode = "local" =>
               /\ s.request.path = "/search"
               /\ s.request.alpha = Absent
               /\ ~s.request.learn)
    /\ [][(OnSearch /\ searchMode = "local") =>
             \E s \in searches' \ searches :
                /\ s.request.query = query
                /\ s.request.limit = limit]_vars
    /\ [][\A s \in searches : \A r \in SearchResponses :
             (SearchResolve(s, r) /\ s.mode = "local" /\ SearchSucceeded(r)) =>
                /\ cacheHit' \in {"true", "false"}
                /\ cacheHit' = "true" <=> r.cache_hit = "true"
                /\ currentMode' = "local"]_vars
C23_Witness ==
    /\ currentMode = "local" /\ cacheHit = "true"
    /\ sError = NoError /\ ~sLoading /\ Len(results) > 0

\* C24: when the backend answers a search of either mode with a non-success
\* status, the error shown after the failure is
\* 'qsearch API error: <status> <body>'.
C24_FailureStatusMessage ==
    [][\A s \in searches : \A r \in SearchResponses :
         (SearchResolve(s, r) /\ r.kind = "http" /\ ~r.ok) =>
            ShownError' = ErrorMsg("qsearch API error: ", r.status, r.body)]_vars

\* C25: when a failed search (transport failure or failure status) has been
\* applied, no result is visible, no cache indicator and no mode tag is
\* shown, the error message is set and the shell accepts a new search.
C25_FailureDegradesToEmpty ==
    [][\A s \in searches : \A r \in SearchResponses :
         (SearchResolve(s, r) /\ SearchFailed(r)) =>
            /\ ShownResults' = <<>>
            /\ results' = <<>>
            /\ ShownCache' = "none"
            /\ ShownMode' = "null"
            /\ ShownError' # NoError
            /\ ~sLoading']_vars

\* C26: a submission clears the previous results, cache indicator, mode tag
\* and error, and the results visible after a response are exactly that
\* response's results, not merged with or appended to earlier ones.
C26_FreshOutcomePerSubmission ==
    /\ [][OnSearch =>
             /\ results' = <<>> /\ ShownResults' = <<>>
             /\ cacheHit' = "null" /\ currentMode' = "null"
             /\ sError' = NoError]_vars
    /\ [][\A s \in searches : \A r \in SearchResponses :
             (SearchResolve(s, r) /\ SearchSucceeded(r)) =>
                /\ ShownResults' = (IF r.hasResults THEN r.results ELSE <<>>)
                /\ results' = ShownResults']_vars
C26_Witness ==
    /\ nSearches = 2 /\ shown = 2 /\ searches = {}
    /\ Len(results) = 1 /\ sError = NoError

\* C27: the visible result list of a successful search is the response's
\* results sequence, same length and same order, and a local response with
\* cache_hit true shows the cache indicator as hit.
C27_ResultsInOrderAndCacheShown ==
    [][\A s \in searches : \A r \in SearchResponses :
         (SearchResolve(s, r) /\ SearchSucceeded(r) /\ r.hasResults) =>
            /\ Len(ShownResults') = Len(r.results)
            /\ \A i \in 1..Len(r.results) : ShownResults'[i] = r.results[i]
            /\ (s.mode = "local" /\ r.cache_hit = "true") => ShownCache' = "hit"]_vars
\* ---------------------------------------------------- periodic pollers: properties
\* C28: each view's poller is started once when the view mounts and cancelled
\* exactly once when the view is torn down: every live timer belongs to the
\* mounted view instance, a mounted view has exactly one, every timer of a
\* torn-down view has been cancelled once, and no poll request is issued for
\* a view that is not mounted.
C28_PollersCancelledAtTeardown ==
    /\ [](\A t \in timers : t.view = view /\ t.inst = inst)
    /\ [](view # "none" => Cardinality(timers) = 1)
    /\ [](/\ Len(cancels) = nTimers
          /\ \A k \in 1..nTimers :
                cancels[k] = (IF \E t \in timers : t.id = k THEN 0 ELSE 1))
    /\ [][\A p \in polls' \ polls : p.view = view' /\ p.inst = inst']_vars
C28_Witness ==
    /\ nMounts = 2 /\ cancels = <<1, 0>>
    /\ \E t \in timers : t.id = 2 /\ t.inst = inst
    /\ \E p \in polls : p.by = "timer" /\ p.inst = 1

\* C29: a usage-stats poll that fails (transport failure, failure status or
\* unparseable body) changes neither learnerStats nor any search state, the
\* error included, and leaves the timer live; a poll that succeeds replaces
\* learnerStats by the response body as a whole.
C29_PollFailureSwallowed ==
    /\ [][\A p \in polls : \A r \in StatsResponses :
             (StatsResolve(p, r) /\ (r.kind = "transport" \/ ~r.ok \/ ~r.parse)) =>
                /\ UNCHANGED <<learnerStats, searchVars, timers>>
                /\ ShownError' = ShownError
                /\ p.inst = inst => \E t \in timers' : t.inst = inst']_vars
    /\ [][\A p \in polls : \A r \in StatsResponses :
             (StatsResolve(p, r) /\ r.kind = "http" /\ r.ok /\ r.parse /\ p.inst = inst) =>
                learnerStats' = r.stats]_vars
C29_Witness ==
    /\ lastPoll = "failed" /\ learnerStats = StatsA
    /\ view = "app" /\ timers # {} /\ nMounts = 1
    /\ sLoading
\* ------------------------------------------- auth capabilities: properties
\* a capabilities answer that is unavailable or malformed: a transport
\* failure, a failure status, a body that cannot be parsed, or a body with
\* neither enabled nor providers
CapsUnavailable(r) ==
    \/ r.kind = "transport"
    \/ /\ r.kind = "http"
       /\ \/ ~r.ok
          \/ ~r.parse
          \/ r.flag = "absent" /\ r.providers = AbsentProviders

C31_CapabilitiesImmutable ==
    [][InitSettled =>
         /\ \A c \in calls' \ calls : c.pc # "caps"
         /\ authEnabled' = authEnabled
         /\ providers' = providers]_vars

\* C35: whenever register or login has reported {ok: true}, user is a
\* Session, the one the response carried.
C35_SuccessMeansAuthenticated ==
    (PostReturned /\ last.result.ok) =>
        /\ Authenticated
        /\ user \in Sessions
        /\ user = last.resp.user

\* C36: a register or login call that reports {ok: false} has changed neither
\* the Session, nor loading, nor authEnabled: not when it was called and not
\* when it returned.
C36_FailedPostChangesNothing ==
    /\ []((PostReturned /\ ~last.result.ok) => user = last.userBefore)
    /\ [][(Register \/ Login) =>
             UNCHANGED <<user, loading, authEnabled, providers>>]_vars
    /\ [][(last'.call.op \in {"register", "login"} /\ ~last'.result.ok) =>
             UNCHANGED <<user, loading, authEnabled, providers>>]_vars
C36_Witness ==
    /\ PostReturned /\ ~last.result.ok
    /\ last.resp.kind = "transport"
    /\ user = SessionA /\ last.userBefore = SessionA
\* C32: on every card of a visible hybrid outcome the hybrid score and the
\* basin distance are numbers: 0 when the response's result omits the field,
\* the field's value otherwise.
C32_MissingScoreShownAsZero ==
    currentMode = "hybrid" =>
        \A i \in 1..Len(ShownResults) :
            /\ ShownMetrics[i].h \in Nat
            /\ ShownMetrics[i].d \in Nat
            /\ ShownMetrics[i].h =
                  (IF results[i].hybrid_score = Absent THEN 0 ELSE results[i].hybrid_score)
            /\ ShownMetrics[i].d =
                  (IF results[i].basin_distance = Absent THEN 0 ELSE results[i].basin_distance)
C32_Witness ==
    /\ currentMode = "hybrid" /\ ~sLoading /\ sError = NoError
    /\ Len(results) = 2
    /\ results[1].hybrid_score = Absent /\ ShownMetrics[1].h = 0
    /\ results[2].hybrid_score # Absent
\* C33: when onSearch is called only through the form (never while loading
\* is true), at most one search request is in flight, and every response is
\* applied by the latest submission to the visible state that submission
\* cleared.
C33_FormSubmitsOneAtATime ==
    /\ [](Cardinality(searches) <= 1)
    /\ [](shown \in {0, nSearches})
    /\ [][\A s \in searches : \A r \in SearchResponses :
             SearchResolve(s, r) =>
                /\ s.id = nSearches
                /\ results = <<>> /\ cacheHit = "null" /\ currentMode = "null"
                /\ sError = NoError /\ sLoading]_vars
C33_Witness ==
    /\ nSearches = 2 /\ shown = 2 /\ searches = {}
    /\ currentMode = "local" /\ cacheHit = "true" /\ Len(results) > 0

\* C34: for any sequence of onSearch calls, the loading flag is true exactly
\* while at least one submitted search is unresolved.
C34_LoadingWhileInFlight == sLoading <=> searches # {}
\* C37: while the preference is light or dark, an ambient change changes
\* nothing: ResolvedTheme, the root's classes and the stored value stay as they
\* were (they are the preference itself), and no resolveTheme call is made; the
\* ambient preference in effect is picked up by the effects that run once the
\* preference is system again.
FixedPreference == ThemeSettled /\ theme \in {"light", "dark"}
C37_AmbientIgnoredWhileFixed ==
    /\ [](FixedPreference =>
             (resolvedTheme = theme /\ rootClasses = {theme} /\ storage = theme))
    /\ [][(AmbientChange /\ FixedPreference) =>
             UNCHANGED <<theme, resolvedTheme, rootClasses, storage, lastResolve,
                         tQueue>>]_vars
    /\ [][(RunEffects /\ theme = "system") =>
             (resolvedTheme' = AmbientTheme' /\ rootClasses' = {AmbientTheme'})]_vars
C37_Witness ==
    /\ FixedPreference /\ theme = "light" /\ nSets = 1 /\ tQueue = <<>>
    /\ ambient /\ ~scriptAmbient
    /\ lastResolve.by = "effect" /\ ~lastResolve.ambient
    /\ rootClasses = {"light"}

\* C38: once the ThemeProvider is mounted and every preference change and
\* ambient change has been processed, the root carries exactly one of the
\* classes light and dark, and it is both the exposed resolvedTheme and what the
\* current preference resolves to under the current ambient preference.
ThemeClasses == rootClasses \cap {"light", "dark"}
C38_RootClassIsResolved ==
    (ThemeSettled /\ tQueue = <<>>) =>
        /\ Cardinality(ThemeClasses) = 1
        /\ ThemeClasses = {resolvedTheme}
        /\ resolvedTheme = (IF theme = "system" THEN AmbientTheme ELSE theme)
C38_Witness ==
    /\ ThemeSettled /\ tQueue = <<>> /\ nSets = 2
    /\ theme = "light" /\ lastSet = "light"
    /\ scriptAmbient /\ ambient
    /\ rootClasses = {"light"}

\* C39: for every stored value and every ambient preference, the pre-render
\* script puts the dark class on the root exactly when the ThemeProvider
\* resolves dark from the same stored value and ambient preference, so the
\* first run of the provider's effects does not flip the dark class; the script
\* leaves storage alone and never throws, whatever storage does.
DarkApplied == "dark" \in rootClasses
C39_ScriptAgreesWithProvider ==
    /\ []((tPhase = "scripted" /\ ~ReadThrows(storageMode) /\ ambient = scriptAmbient)
             => (DarkApplied <=> ResolveTheme(InitialTheme(storage), ambient) = "dark"))
    /\ [][(RunEffects /\ tPhase = "rendered" /\ ambient = scriptAmbient)
             => (DarkApplied' <=> DarkApplied)]_vars
    /\ [][PreRenderScript => (storage' = storage /\ tPhase' = "scripted")]_vars
C39_Witness ==
    /\ ThemeSettled /\ nSets = 0 /\ lastResolve.by = "effect"
    /\ theme = "system" /\ ambient /\ scriptAmbient
    /\ DarkApplied

====
